---- MODULE Spec2Model ----
(***************************************************************************)
(* State-machine model of the AI Expense Analyzer:                         *)
(*   - RAGModel (src/rag_model.py): knowledge base, TF-IDF vector space,   *)
(*     retrieval, context building, prompt assembly, category advice and   *)
(*     the expense history;                                                *)
(*   - the "add_expense" form of the Streamlit application (src/app.py).   *)
(*                                                                         *)
(* Texts are sequences of words.  Real numbers are fixed-point integers:   *)
(* TF-IDF weights and cosines are scaled by Scale, amounts of money are    *)
(* whole rupees and formatted numbers carry two explicit decimals.         *)
(* Python indices start at 0, the indices of this module at 1.             *)
(***************************************************************************)
EXTENDS Integers, Sequences, FiniteSets, TLC

VARIABLES
    kb_literal,        \* the knowledge_base list literal of _initialize_knowledge_base
    vectorizer,        \* self.vectorizer: fitted flag, vocabulary_, idf_
    documents,         \* self.documents
    document_vectors,  \* self.document_vectors (None or one row per document)
    knowledge_base,    \* self.knowledge_base
    expense_history,   \* self.expense_history
    last_call,         \* the call the caller has made last: its arguments, the
                       \* locals of the method and the value it returned
    expenses,          \* st.session_state.expenses
    form_feedback      \* what the add_expense form reported on the last run

vars == <<kb_literal, vectorizer, documents, document_vectors, knowledge_base,
          expense_history, last_call, expenses, form_feedback>>

rag_vars == <<kb_literal, vectorizer, documents, document_vectors, knowledge_base,
              expense_history, last_call>>

app_vars == <<expenses, form_feedback>>

(***************************************************************************)
(* Bounds of the model.                                                    *)
(***************************************************************************)
MaxQueryLen == 2
MaxTopK == 3
MaxRecords == 3
MaxAmount == 1
MaxHistory == 2
MaxExpenses == 3
MaxFormAmount == 2

(***************************************************************************)
(* Program constants.                                                      *)
(***************************************************************************)
DefaultTopK == 3
PromptTopK == 2

\* Fixed-point unit standing for 1.0 in vectors and similarities.
Scale == 1000

(***************************************************************************)
(* Strings.                                                                *)
(***************************************************************************)
\* str.lower() on the strings the model uses.
Lower(s) ==
    CASE s = "Food" -> "food"
      [] s = "FOOD" -> "food"
      [] s = "General" -> "general"
      [] s = "GENERAL" -> "general"
      [] s = "Unknown" -> "unknown"
      [] s = "Transport" -> "transport"
      [] s = "Expenses" -> "expenses"
      [] OTHER -> s

\* A part of sklearn's English stop word list.
StopWords == {"the", "on", "to"}

NoAdviceSentinel == <<"No specific advice available for this category.">>
NoDataSentinel == <<"No expense data available.">>

(***************************************************************************)
(* Candidate knowledge-base literals.  The literal is fixed source text;   *)
(* the model draws it from a set so that the guards for an empty           *)
(* knowledge base and for a missing "General" document are exercised.      *)
(***************************************************************************)
KBLiterals ==
    { << >>,
      << [category |-> "Food",      content |-> <<"food", "expenses">>],
         [category |-> "Transport", content |-> <<"save", "on", "transport">>],
         [category |-> "General",   content |-> <<"track", "expenses">>] >>,
      << [category |-> "food",      content |-> <<"save", "food">>],
         [category |-> "Food",      content |-> <<"food", "food", "expenses">>],
         [category |-> "general",   content |-> <<"track", "the", "expenses">>] >> }

(***************************************************************************)
(* Arithmetic helpers.                                                     *)
(***************************************************************************)
RECURSIVE SumOver(_, _)
SumOver(S, f) ==
    IF S = {} THEN 0
    ELSE LET x == CHOOSE y \in S : TRUE
         IN f[x] + SumOver(S \ {x}, f)

RECURSIVE ISqrtBetween(_, _, _)
ISqrtBetween(n, lo, hi) ==
    IF lo >= hi THEN lo
    ELSE LET mid == (lo + hi + 1) \div 2
         IN IF mid * mid <= n THEN ISqrtBetween(n, mid, hi)
            ELSE ISqrtBetween(n, lo, mid - 1)

\* floor(sqrt(n))
ISqrt(n) == ISqrtBetween(n, 0, 46340)

Range(s) == {s[i] : i \in 1..Len(s)}

Count(w, s) == Cardinality({i \in 1..Len(s) : s[i] = w})

(***************************************************************************)
(* TfidfVectorizer(stop_words='english') and cosine_similarity.            *)
(***************************************************************************)
\* build_analyzer(): lowercase, tokenize, drop the stop words.
Analyze(text) ==
    LET lowered == [i \in 1..Len(text) |-> Lower(text[i])]
    IN SelectSeq(lowered, LAMBDA w : w \notin StopWords)

\* smooth idf, ln((1 + n) / (1 + df)) + 1, in hundredths.
Idf(n, df) ==
    CASE n = df -> 100
      [] n = 2 /\ df = 1 -> 141
      [] n = 3 /\ df = 1 -> 169
      [] n = 3 /\ df = 2 -> 129

\* norm='l2': a zero row stays zero.
L2Normalize(v) ==
    LET norm == ISqrt(SumOver(DOMAIN v, [t \in DOMAIN v |-> v[t] * v[t]]))
    IN [t \in DOMAIN v |-> IF norm = 0 THEN 0 ELSE (v[t] * Scale) \div norm]

UnfittedVectorizer == [fitted |-> FALSE, vocabulary |-> {}, idf |-> << >>]

\* fit(): vocabulary_ and idf_ learnt from the documents.
Fit(docs) ==
    LET analyzed == [i \in 1..Len(docs) |-> Analyze(docs[i])]
        vocabulary == UNION {Range(analyzed[i]) : i \in 1..Len(docs)}
        df == [t \in vocabulary |->
                  Cardinality({i \in 1..Len(docs) : t \in Range(analyzed[i])})]
    IN [fitted |-> TRUE,
        vocabulary |-> vocabulary,
        idf |-> [t \in vocabulary |-> Idf(Len(docs), df[t])]]

\* transform() of one text under a fitted vectorizer: words outside the
\* vocabulary are ignored.
TransformOne(vec, text) ==
    LET analyzed == Analyze(text)
    IN L2Normalize([t \in vec.vocabulary |-> Count(t, analyzed) * vec.idf[t]])

\* fit_transform(): one row per document, in document order.
FitTransform(docs) ==
    [i \in 1..Len(docs) |-> TransformOne(Fit(docs), docs[i])]

\* cosine_similarity of two rows: both are normalized, then multiplied.
CosineSimilarity(x, y) ==
    LET nx == ISqrt(SumOver(DOMAIN x, [t \in DOMAIN x |-> x[t] * x[t]]))
        ny == ISqrt(SumOver(DOMAIN y, [t \in DOMAIN y |-> y[t] * y[t]]))
        dot == SumOver(DOMAIN x, [t \in DOMAIN x |-> x[t] * y[t]])
    IN IF nx = 0 \/ ny = 0 THEN 0 ELSE (dot * Scale) \div (nx * ny)

NoVectors == [is_none |-> TRUE, rows |-> << >>]

(***************************************************************************)
(* RAGModel.__init__ and RAGModel._initialize_knowledge_base               *)
(***************************************************************************)
\* self.documents = [doc["content"] for doc in knowledge_base]
ExtractContent(old_documents, kb) == [i \in 1..Len(kb) |-> kb[i].content]

\* Mutant: the new rows are stacked under the rows already held.
VectorsStacked(old_vectors, docs) ==
    IF docs # << >>
    THEN [is_none |-> FALSE, rows |-> old_vectors.rows \o FitTransform(docs)]
    ELSE old_vectors

\* if self.documents: self.document_vectors = self.vectorizer.fit_transform(...)
VectorsAfterInitialize(old_vectors, docs) ==
    IF docs # << >> THEN [is_none |-> FALSE, rows |-> FitTransform(docs)]
    ELSE old_vectors

VectorizerAfterInitialize(old_vectorizer, docs) ==
    IF docs # << >> THEN Fit(docs) ELSE old_vectorizer

InitRAG ==
    /\ kb_literal \in KBLiterals
    /\ documents = ExtractContent(<< >>, kb_literal)
    /\ vectorizer = VectorizerAfterInitialize(UnfittedVectorizer, documents)
    /\ document_vectors = VectorsAfterInitialize(NoVectors, documents)
    /\ knowledge_base = kb_literal
    /\ expense_history = << >>
    /\ last_call = [op |-> "__init__"]

InitApp ==
    /\ expenses = << >>
    /\ form_feedback = "none"

Init == InitRAG /\ InitApp

\* The caller is single-threaded and every method is synchronous: a call is
\* made once the value of the previous one has been taken.
CallerReady == last_call.op \in {"__init__", "returned"}

ReturnToCaller ==
    /\ ~CallerReady
    /\ last_call' = [op |-> "returned"]
    /\ UNCHANGED <<kb_literal, vectorizer, documents, document_vectors,
                   knowledge_base, expense_history, app_vars>>

\* A later call of _initialize_knowledge_base(): it refits the vectorizer,
\* reassigns documents and document_vectors and returns the literal.
InitializeKnowledgeBase ==
    /\ CallerReady
    /\ documents' = ExtractContent(documents, kb_literal)
    /\ vectorizer' = VectorizerAfterInitialize(vectorizer, documents')
    /\ document_vectors' = VectorsAfterInitialize(document_vectors, documents')
    /\ last_call' = [op |-> "_initialize_knowledge_base", result |-> kb_literal]
    /\ UNCHANGED <<kb_literal, knowledge_base, expense_history, app_vars>>

(***************************************************************************)
(* RAGModel.add_expense_to_history                                         *)
(***************************************************************************)
\* Mutant: the record is inserted at the front.
HistoryInsertFront(history, expense_data) == <<expense_data>> \o history

\* self.expense_history.append(expense_data)
HistoryAppend(history, expense_data) == Append(history, expense_data)

AddExpenseToHistory(expense_data) ==
    /\ CallerReady
    /\ Len(expense_history) < MaxHistory
    /\ expense_history' = HistoryAppend(expense_history, expense_data)
    /\ last_call' = [op |-> "add_expense_to_history", expense_data |-> expense_data]
    /\ UNCHANGED <<kb_literal, vectorizer, documents, document_vectors,
                   knowledge_base, app_vars>>

(***************************************************************************)
(* RAGModel.retrieve_relevant_knowledge                                    *)
(***************************************************************************)
Reverse(s) == [i \in 1..Len(s) |-> s[Len(s) + 1 - i]]

\* Python's s[-k:] for k >= 0: s[-0:] is s[0:], the whole sequence.
LastSlice(s, k) ==
    IF k = 0 \/ k >= Len(s) THEN s
    ELSE SubSeq(s, Len(s) - k + 1, Len(s))

\* np.argsort(similarities): the default kind is 'quicksort', which is not a
\* stable sort; every index order with non-decreasing similarities is an
\* outcome.
ArgSorts(similarities) ==
    LET n == Len(similarities)
    IN {p \in [1..n -> 1..n] :
           /\ \A i, j \in 1..n : i # j => p[i] # p[j]
           /\ \A i, j \in 1..n : i < j => similarities[p[i]] <= similarities[p[j]]}

\* np.argsort(similarities)[-top_k:][::-1]
TopIndices(argsort, top_k) == Reverse(LastSlice(argsort, top_k))

\* Mutant: a similarity of zero passes the filter.
IsRelevantOrZero(similarity) == similarity >= 0

\* the test of the comprehension: similarities[i] > 0
IsRelevant(similarity) == similarity > 0

\* [self.knowledge_base[i] for i in top_indices if similarities[i] > 0]
KeptIndices(top_indices, similarities) ==
    SelectSeq(top_indices, LAMBDA i : IsRelevant(similarities[i]))

RelevantDocs(kb, kept) == [j \in 1..Len(kept) |-> kb[kept[j]]]

\* cosine_similarity(query_vector, self.document_vectors)[0]
Similarities(query) ==
    LET query_vector == TransformOne(vectorizer, query)
    IN [i \in 1..Len(document_vectors.rows) |->
           CosineSimilarity(query_vector, document_vectors.rows[i])]

\* if not self.documents or self.document_vectors is None: return []
NothingToSearch == documents = << >> \/ document_vectors.is_none

EmptyOutcome(error) ==
    [error |-> error, similarities |-> << >>, argsort |-> << >>,
     top_indices |-> << >>, kept |-> << >>, result |-> << >>]

\* Everything one call may compute and return; transform() of an unfitted
\* vectorizer raises NotFittedError.
RetrieveOutcomes(query, top_k) ==
    IF NothingToSearch THEN {EmptyOutcome("none")}
    ELSE IF ~vectorizer.fitted THEN {EmptyOutcome("NotFittedError")}
    ELSE LET similarities == Similarities(query)
         IN {LET top_indices == TopIndices(argsort, top_k)
                 kept == KeptIndices(top_indices, similarities)
             IN [error |-> "none", similarities |-> similarities,
                 argsort |-> argsort, top_indices |-> top_indices,
                 kept |-> kept, result |-> RelevantDocs(knowledge_base, kept)]
             : argsort \in ArgSorts(similarities)}

RetrieveRelevantKnowledge(query, top_k) ==
    /\ CallerReady
    /\ \E outcome \in RetrieveOutcomes(query, top_k) :
           last_call' = [op |-> "retrieve_relevant_knowledge",
                         query |-> query, top_k |-> top_k,
                         error |-> outcome.error,
                         similarities |-> outcome.similarities,
                         argsort |-> outcome.argsort,
                         top_indices |-> outcome.top_indices,
                         kept |-> outcome.kept,
                         result |-> outcome.result]
    /\ UNCHANGED <<kb_literal, vectorizer, documents, document_vectors,
                   knowledge_base, expense_history, app_vars>>

(***************************************************************************)
(* RAGModel.build_context_from_expenses                                    *)
(***************************************************************************)
\* The category labels in the order groupby(sort=True) lists its keys.
CategoryOrder == <<"Bills", "Food", "Transport">>

RECURSIVE SumAmounts(_)
SumAmounts(df) ==
    IF df = << >> THEN 0 ELSE Head(df).Amount + SumAmounts(Tail(df))

\* df["Amount"].sum()
TotalSpending(df) == SumAmounts(df)

\* Mutant: a group reports its first amount instead of the sum.
GroupFirst(df, category) ==
    Head(SelectSeq(df, LAMBDA r : r.Category = category)).Amount

\* one group of df.groupby("Category")["Amount"].sum()
GroupSum(df, category) ==
    SumAmounts(SelectSeq(df, LAMBDA r : r.Category = category))

\* the keys of df.groupby("Category")["Amount"].sum().to_dict()
GroupKeys(df) ==
    SelectSeq(CategoryOrder, LAMBDA c : \E i \in 1..Len(df) : df[i].Category = c)

\* f"{x:.2f}" of x given in hundredths
FormatF2(hundredths) ==
    LET magnitude == IF hundredths < 0 THEN 0 - hundredths ELSE hundredths
    IN [negative |-> hundredths < 0,
        whole |-> magnitude \div 100,
        cents |-> magnitude % 100]

\* df["Amount"].mean(), rounded to the nearest hundredth as :.2f prints it
MeanHundredths(df) ==
    (200 * SumAmounts(df) + Len(df)) \div (2 * Len(df))

BuildContextResult(df) ==
    IF df = << >> THEN NoDataSentinel
    ELSE LET keys == GroupKeys(df)
         IN [total |-> FormatF2(100 * TotalSpending(df)),
             average |-> FormatF2(MeanHundredths(df)),
             by_category |->
                 [j \in 1..Len(keys) |->
                     [category |-> keys[j],
                      amount |-> FormatF2(100 * GroupSum(df, keys[j]))]]]

BuildContextFromExpenses(df) ==
    /\ CallerReady
    /\ last_call' = [op |-> "build_context_from_expenses", df |-> df,
                     result |-> BuildContextResult(df)]
    /\ UNCHANGED <<kb_literal, vectorizer, documents, document_vectors,
                   knowledge_base, expense_history, app_vars>>

(***************************************************************************)
(* RAGModel.generate_rag_enhanced_prompt                                   *)
(***************************************************************************)
Segment(kind, n, category, text) ==
    [kind |-> kind, n |-> n, category |-> category, text |-> text]

\* for i, doc in enumerate(relevant_docs, 1): f"{i}. [{category}] {content}\n"
AdviceEntries(relevant_docs) ==
    [i \in 1..Len(relevant_docs) |->
        Segment("entry", i, relevant_docs[i].category, relevant_docs[i].content)]

\* Mutant: the header is written whatever was retrieved.
AdviceBlockAlways(relevant_docs) ==
    <<Segment("header", 0, "", <<"Relevant Financial Advice:">>)>>
        \o AdviceEntries(relevant_docs)

\* if relevant_docs: the header and the entries
AdviceBlock(relevant_docs) ==
    IF relevant_docs # << >>
    THEN <<Segment("header", 0, "", <<"Relevant Financial Advice:">>)>>
             \o AdviceEntries(relevant_docs)
    ELSE << >>

EnhancedPrompt(query, expense_context, relevant_docs) ==
    <<Segment("context", 0, "", expense_context)>>
        \o AdviceBlock(relevant_docs)
        \o <<Segment("question", 0, "", query),
             Segment("instruction", 0, "", <<"Please provide a detailed, context-aware response based on the expense data and financial advice above.">>)>>

GenerateRagEnhancedPrompt(query, expense_context) ==
    /\ CallerReady
    /\ \E outcome \in RetrieveOutcomes(query, PromptTopK) :
           last_call' = [op |-> "generate_rag_enhanced_prompt",
                         query |-> query, expense_context |-> expense_context,
                         error |-> outcome.error,
                         similarities |-> outcome.similarities,
                         argsort |-> outcome.argsort,
                         top_indices |-> outcome.top_indices,
                         kept |-> outcome.kept,
                         prompt |-> IF outcome.error = "none"
                                    THEN EnhancedPrompt(query, expense_context,
                                                        outcome.result)
                                    ELSE << >>,
                         docs |-> outcome.result]
    /\ UNCHANGED <<kb_literal, vectorizer, documents, document_vectors,
                   knowledge_base, expense_history, app_vars>>

(***************************************************************************)
(* RAGModel.get_category_specific_advice                                   *)
(***************************************************************************)
\* Mutant: the categories are compared as written.
CategoryMatchesExactly(doc_category, category) == doc_category = category

\* doc["category"].lower() == category.lower()
CategoryMatches(doc_category, category) == Lower(doc_category) = Lower(category)

\* the first loop, from document i on: the index of the first match, or 0
RECURSIVE ScanForCategory(_, _, _)
ScanForCategory(kb, i, category) ==
    IF i > Len(kb) THEN 0
    ELSE IF CategoryMatches(kb[i].category, category) THEN i
    ELSE ScanForCategory(kb, i + 1, category)

\* the second loop: doc["category"] == "General"
RECURSIVE ScanForGeneral(_, _)
ScanForGeneral(kb, i) ==
    IF i > Len(kb) THEN 0
    ELSE IF kb[i].category = "General" THEN i
    ELSE ScanForGeneral(kb, i + 1)

CategoryAdvice(category) ==
    LET found == ScanForCategory(knowledge_base, 1, category)
        general == ScanForGeneral(knowledge_base, 1)
    IN IF found # 0 THEN knowledge_base[found].content
       ELSE IF general # 0 THEN knowledge_base[general].content
       ELSE NoAdviceSentinel

GetCategorySpecificAdvice(category) ==
    /\ CallerReady
    /\ last_call' = [op |-> "get_category_specific_advice",
                     category |-> category, result |-> CategoryAdvice(category)]
    /\ UNCHANGED <<kb_literal, vectorizer, documents, document_vectors,
                   knowledge_base, expense_history, app_vars>>

(***************************************************************************)
(* The add_expense form of the application (src/app.py)                    *)
(***************************************************************************)
\* date.strftime("%B %Y")
MonthOf(date) ==
    CASE date = "2026-01-15" -> "January 2026"
      [] date = "2026-02-01" -> "February 2026"

\* Mutant: only negative amounts are refused.
InvalidAmountNegative(amount) == amount < 0

\* if amount <= 0: st.error(...)
InvalidAmount(amount) == amount <= 0

\* One run of the script with the form submitted.
SubmitExpense(date, category, amount, description) ==
    /\ IF InvalidAmount(amount)
       THEN /\ form_feedback' = "error"
            /\ UNCHANGED expenses
       ELSE /\ Len(expenses) < MaxExpenses
            /\ expenses' = Append(expenses,
                                  [Date |-> date, Month |-> MonthOf(date),
                                   Category |-> category, Amount |-> amount,
                                   Description |-> description])
            /\ form_feedback' = "success"
    /\ UNCHANGED rag_vars

\* One run of the script without a submission: session_state.expenses exists
\* and is kept.
RerunWithoutSubmit ==
    /\ form_feedback' = "none"
    /\ UNCHANGED <<expenses, rag_vars>>

(***************************************************************************)
(* Inputs and specifications.                                              *)
(***************************************************************************)
SeqsUpTo(S, n) == UNION {[1..m -> S] : m \in 0..n}

QueryWords == {"expenses", "Food", "save", "the", "pizza"}
Queries == SeqsUpTo(QueryWords, MaxQueryLen)
TopKs == (0..MaxTopK) \cup {DefaultTopK}
ExpenseContexts == {NoDataSentinel, <<"Total spending: 100.00 PKR.">>}
CategoryArgs == {"Food", "food", "FOOD", "General", "GENERAL", "Unknown", ""}

ExpenseRecords ==
    [Category : {"Food", "Transport"}, Amount : (0 - 1)..MaxAmount]
DataFrames == SeqsUpTo(ExpenseRecords, MaxRecords)

HistoryRecords ==
    {[Category |-> "Food", Amount |-> 100], [Category |-> "Bills", Amount |-> 50]}
FewQueries == {<< >>, <<"expenses">>, <<"save", "Food">>}
FewDataFrames == {<< >>, <<[Category |-> "Food", Amount |-> 1]>>}

FormDates == {"2026-01-15", "2026-02-01"}
FormCategories == {"Food", "Other"}
FormAmounts == 0..MaxFormAmount

\* The retrieval side of RAGModel over the full input sets.
Next ==
    \/ \E query \in Queries, top_k \in TopKs : RetrieveRelevantKnowledge(query, top_k)
    \/ \E query \in Queries, expense_context \in ExpenseContexts :
           GenerateRagEnhancedPrompt(query, expense_context)
    \/ \E category \in CategoryArgs : GetCategorySpecificAdvice(category)
    \/ InitializeKnowledgeBase
    \/ ReturnToCaller

Spec == Init /\ [][Next]_vars

\* The context builder over the full set of tables.
NextContext ==
    \/ \E df \in DataFrames : BuildContextFromExpenses(df)
    \/ ReturnToCaller

SpecContext == Init /\ [][NextContext]_vars

\* Every operation of RAGModel, interleaved with the growth of the history.
NextModel ==
    \/ \E expense_data \in HistoryRecords : AddExpenseToHistory(expense_data)
    \/ \E query \in FewQueries, top_k \in {0, 1} :
           RetrieveRelevantKnowledge(query, top_k)
    \/ \E df \in FewDataFrames : BuildContextFromExpenses(df)
    \/ \E query \in FewQueries : GenerateRagEnhancedPrompt(query, NoDataSentinel)
    \/ \E category \in {"food", "Unknown"} : GetCategorySpecificAdvice(category)
    \/ InitializeKnowledgeBase
    \/ ReturnToCaller

SpecModel == Init /\ [][NextModel]_vars

\* The form of the application.
NextApp ==
    \/ \E date \in FormDates, category \in FormCategories, amount \in FormAmounts :
           SubmitExpense(date, category, amount, "")
    \/ RerunWithoutSubmit

SpecApp == Init /\ [][NextApp]_vars

(***************************************************************************)
(* Properties.                                                             *)
(***************************************************************************)
IsPrefix(s, t) == Len(s) <= Len(t) /\ SubSeq(t, 1, Len(s)) = s

Retrieved == last_call.op = "retrieve_relevant_knowledge"

\* What the last retrieval returns for another top_k, its argsort unchanged.
ResultFor(top_k) ==
    RelevantDocs(knowledge_base,
                 KeptIndices(TopIndices(last_call.argsort, top_k),
                             last_call.similarities))

LengthAtMostTopK ==
    Retrieved => Len(last_call.result) <= last_call.top_k

\* C3: for every k >= 0 the result for k is a prefix of the result for k + 1.
TopKPrefix ==
    Retrieved => IsPrefix(last_call.result, ResultFor(last_call.top_k + 1))

\* C4: a retrieval never fails, returns no document whose similarity to the
\* query is <= 0, and returns the empty list when the query shares no
\* vocabulary with any document or the knowledge base is empty.
PositiveSimilarityFilter ==
    Retrieved =>
        /\ last_call.error = "none"
        /\ NothingToSearch => last_call.result = << >>
        /\ ~NothingToSearch =>
               \A i \in 1..Len(knowledge_base) :
                   Similarities(last_call.query)[i] <= 0
                       => knowledge_base[i] \notin Range(last_call.result)
        /\ (\A i \in 1..Len(documents) :
                Range(Analyze(last_call.query)) \cap Range(Analyze(documents[i])) = {})
               => last_call.result = << >>

\* C4 witness: the filter dropped a document the top-k slice had selected.
FilterDroppedWitness ==
    /\ Retrieved
    /\ last_call.result # << >>
    /\ Len(last_call.result) < Len(last_call.top_indices)

MinOf(S) == CHOOSE x \in S : \A y \in S : x <= y

\* C5: the advice is the content of the first document whose category equals
\* the argument ignoring case, else of the document tagged "General", else the
\* sentinel; arguments differing only in case get the same advice.
CategoryAdviceFallback ==
    last_call.op = "get_category_specific_advice" =>
        LET kb == knowledge_base
            matches == {i \in 1..Len(kb) :
                           Lower(kb[i].category) = Lower(last_call.category)}
            generals == {i \in 1..Len(kb) : kb[i].category = "General"}
        IN /\ last_call.result =
                  IF matches # {} THEN kb[MinOf(matches)].content
                  ELSE IF generals # {} THEN kb[MinOf(generals)].content
                  ELSE NoAdviceSentinel
           /\ \A other \in CategoryArgs :
                  Lower(other) = Lower(last_call.category)
                      => CategoryAdvice(other) = last_call.result

\* C5 witness: "FOOD" got the content of the first of two documents whose
\* categories match it ignoring case.
CaseInsensitiveAdviceWitness ==
    /\ last_call.op = "get_category_specific_advice"
    /\ last_call.category = "FOOD"
    /\ Len(knowledge_base) >= 2
    /\ knowledge_base[1].category = "food"
    /\ knowledge_base[2].category = "Food"
    /\ last_call.result = knowledge_base[1].content

\* C6: the documents returned with the prompt are a retrieval for the query
\* with top_k = 2, and the prompt is the context line, then the advice header
\* with one entry per document numbered from 1 in the order of the documents
\* (present iff there are documents), then the question and the instruction.
PromptFromTopTwo ==
    last_call.op = "generate_rag_enhanced_prompt" =>
        LET docs == last_call.docs
            prompt == last_call.prompt
            n == Len(docs)
        IN /\ last_call.error = "none"
           /\ docs \in {o.result : o \in RetrieveOutcomes(last_call.query, 2)}
           /\ n <= 2
           /\ prompt[1].kind = "context"
           /\ prompt[1].text = last_call.expense_context
           /\ (\E j \in 1..Len(prompt) : prompt[j].kind = "header") <=> n > 0
           /\ Len(prompt) = IF n > 0 THEN n + 4 ELSE 3
           /\ n > 0 => prompt[2].kind = "header"
           /\ \A j \in 1..n :
                  prompt[j + 2] = [kind |-> "entry", n |-> j,
                                   category |-> docs[j].category,
                                   text |-> docs[j].content]
           /\ prompt[Len(prompt) - 1].kind = "question"
           /\ prompt[Len(prompt) - 1].text = last_call.query
           /\ prompt[Len(prompt)].kind = "instruction"

\* C6 witness: a prompt built around two retrieved documents.
TwoDocumentPromptWitness ==
    /\ last_call.op = "generate_rag_enhanced_prompt"
    /\ Len(last_call.docs) = 2

\* The value a number printed with two decimals reads back as, in hundredths.
ParseF2(f) == (IF f.negative THEN 0 - 1 ELSE 1) * (f.whole * 100 + f.cents)

\* C7: an empty table gives the sentinel; otherwise the total is the sum of
\* all amounts, each category of the table is listed once with the sum of its
\* amounts, and the listed subtotals add up to the total.
ContextTotals ==
    last_call.op = "build_context_from_expenses" =>
        LET df == last_call.df
            result == last_call.result
            rows == 1..Len(df)
            amounts == [i \in rows |-> df[i].Amount]
        IN IF df = << >> THEN result = NoDataSentinel
           ELSE LET listed == result.by_category
                IN /\ ParseF2(result.total) = 100 * SumOver(rows, amounts)
                   /\ {listed[j].category : j \in 1..Len(listed)}
                          = {df[i].Category : i \in rows}
                   /\ \A j, k \in 1..Len(listed) :
                          j # k => listed[j].category # listed[k].category
                   /\ \A j \in 1..Len(listed) :
                          ParseF2(listed[j].amount) =
                              100 * SumOver({i \in rows :
                                                df[i].Category = listed[j].category},
                                            amounts)
                   /\ SumOver(1..Len(listed),
                              [j \in 1..Len(listed) |-> ParseF2(listed[j].amount)])
                          = ParseF2(result.total)

\* C7 witness: a table with two records of one category and one of another.
GroupedContextWitness ==
    /\ last_call.op = "build_context_from_expenses"
    /\ Len(last_call.df) = 3
    /\ last_call.df[1].Category = last_call.df[3].Category
    /\ last_call.df[1].Category # last_call.df[2].Category
    /\ last_call.df[1].Amount = 1
    /\ last_call.df[3].Amount = 1
    /\ Len(last_call.result.by_category) = 2

\* C8: the history starts empty, add_expense_to_history appends its argument
\* and keeps the earlier entries, and no other operation changes the history.
HistoryAppendOnly ==
    /\ expense_history = << >>
    /\ [][IF last_call'.op = "add_expense_to_history"
          THEN expense_history' = Append(expense_history, last_call'.expense_data)
          ELSE expense_history' = expense_history]_vars

\* C8 witness: two different records are in the history and another
\* operation has run since.
HistoryKeptWitness ==
    /\ Len(expense_history) = 2
    /\ expense_history[1] # expense_history[2]
    /\ last_call.op = "build_context_from_expenses"

VectorCount == IF document_vectors.is_none THEN 0 ELSE Len(document_vectors.rows)

\* C9: there are as many vectors as documents as knowledge-base entries,
\* documents[i] is the content of knowledge_base[i], and the knowledge base,
\* the documents and the vector space are those of the construction,
\* whatever operations have run, a repeated initialization included.
KnowledgeBaseConsistent ==
    /\ VectorCount = Len(documents)
    /\ Len(documents) = Len(knowledge_base)
    /\ \A i \in 1..Len(documents) : documents[i] = knowledge_base[i].content
    /\ knowledge_base = kb_literal
    /\ documents # << >> =>
           /\ vectorizer = Fit(documents)
           /\ document_vectors.rows = FitTransform(documents)
    /\ documents = << >> => ~vectorizer.fitted

\* C9 witness: the initialization has run again on a non-empty knowledge base.
ReinitializedWitness ==
    /\ last_call.op = "_initialize_knowledge_base"
    /\ Len(knowledge_base) = 3

\* C10: a submission with amount <= 0 reports an error and leaves the list
\* unchanged; every stored expense has amount > 0; the list changes only by
\* an expense with a positive amount being appended.
OnlyPositiveAmountsStored ==
    /\ [](\A i \in 1..Len(expenses) : expenses[i].Amount > 0)
    /\ [][/\ form_feedback' = "error" => expenses' = expenses
          /\ \/ expenses' = expenses
             \/ /\ Len(expenses') = Len(expenses) + 1
                /\ SubSeq(expenses', 1, Len(expenses)) = expenses
                /\ expenses'[Len(expenses')].Amount > 0
                /\ form_feedback' = "success"]_vars

\* C10 witness: a submission was refused while expenses were stored.
RefusedSubmissionWitness ==
    /\ form_feedback = "error"
    /\ Len(expenses) = 2

====
